---- MODULE Spec2Model ----
(***************************************************************************)
(* Verification model of the ansible-elastic-beanstalk modules:            *)
(*   - the option-settings reconciler (new_or_changed_option, three        *)
(*     implementations),                                                   *)
(*   - the environment differ (update_required),                           *)
(*   - the retention selector of elasticbeanstalk_version,                 *)
(*   - the completion waiter (wait_for) and the main() runs of the four    *)
(*     resource kinds.                                                     *)
(* Option values are sequences of one-character strings so that            *)
(* str.split(',') is computed, not assumed.                                *)
(***************************************************************************)
EXTENDS Integers, Sequences, FiniteSets, TLC

VARIABLES
    \* ---- option-settings reconciler (one call of new_or_changed_option)
    setting,        \* the desired setting handed to new_or_changed_option
    options,        \* the observed option list handed to it
    change,         \* its return value
    impl,           \* which implementation produced `change` ("" before the call)
    \* ---- environment differ (one call of update_required)
    env,            \* the observed environment record
    env_settings,   \* the object handed in as env_settings
    params,         \* module.params
    updates,        \* the returned change list (or the raised error)
    diff_pc,        \* "call" | "returned" | "raised"
    \* ---- retention cleanup (one run of state=cleanup)
    remote_versions,   \* describe_application_versions, in the order the API returns them
    remote_deployed,   \* VersionLabel of every environment describe_environments returns
    days_to_store,
    files_to_store,
    now,               \* time.time() of the run
    versions,          \* list_versions_sorted(...)
    versions_to_delete,\* get_cleanup_versions(...)
    deleted,           \* labels for which delete_application_version succeeded
    delete_calls,      \* labels for which delete_application_version was invoked, in order
    delete_errors,     \* what each of those calls raised, in order ("" for nothing)
    cleanup_pc,        \* position of the cleanup run
    cleanup_result,    \* the dict handed to exit_json
    \* ---- runs of main() and the completion waiter
    kind,           \* "app" | "version" | "env" | "template" | "wait"
    state,          \* module.params['state']
    remote,         \* the list the first lookup of the resource gets from the client
    resource,       \* the app / version / configuration_template of main(), or None
    run_pc,         \* position of the run
    writes,         \* write operations invoked on the client, in order
    result,         \* how the run ends: exit_json, fail_json or an unhandled exception
    wait_timeout,
    testfunc,       \* the predicate wait_for was called with
    clock,          \* time()
    timeout_time,
    polls,          \* number of describe_env calls made by wait_for
    fetched,        \* the Environments list of the latest re-fetch
    wait_state,     \* "Idle" | "Polling" | "Satisfied" | "TimedOut" | "Failed"
    wait_error      \* the exception wait_for raised

optVars == <<setting, options, change, impl>>
diffVars == <<env, env_settings, params, updates, diff_pc>>
cleanupVars == <<remote_versions, remote_deployed, days_to_store, files_to_store, now,
                 versions, versions_to_delete, deleted, delete_calls, delete_errors,
                 cleanup_pc, cleanup_result>>
runVars == <<kind, state, remote, resource, run_pc, writes, result, wait_timeout, testfunc,
             clock, timeout_time, polls, fetched, wait_state, wait_error>>
vars == <<optVars, diffVars, cleanupVars, runVars>>

-----------------------------------------------------------------------------
(* Strings                                                                 *)

\* Longest option Value of the model.
MaxValLen == 3

Alphabet == {"a", "b", ","}

RECURSIVE StringsOfLen(_)
StringsOfLen(n) ==
    IF n = 0 THEN {<<>>}
    ELSE {Append(s, c) : s \in StringsOfLen(n - 1), c \in Alphabet}

Values == UNION {StringsOfLen(n) : n \in 0..MaxValLen}

\* Index of the first "," of s, 0 when there is none.
RECURSIVE FirstComma(_, _)
FirstComma(s, i) ==
    IF i > Len(s) THEN 0
    ELSE IF s[i] = "," THEN i
    ELSE FirstComma(s, i + 1)

\* str.split(','): the list of tokens; "".split(',') is [''].
RECURSIVE split(_)
split(s) ==
    LET c == FirstComma(s, 1) IN
    IF c = 0 THEN <<s>>
    ELSE <<SubSeq(s, 1, c - 1)>> \o split(SubSeq(s, c + 1, Len(s)))

\* set(value.split(','))
TokenSet(s) == {split(s)[i] : i \in 1..Len(split(s))}

-----------------------------------------------------------------------------
(* Option-settings reconciler                                              *)

SpecialNamespaces == {"aws:autoscaling:launchconfiguration", "aws:ec2:vpc"}
SpecialOptionNames == {"SecurityGroups", "ELBSubnets", "Subnets"}
Namespaces == SpecialNamespaces \cup {"aws:elasticbeanstalk:environment"}
OptionNames == SpecialOptionNames \cup {"InstanceType"}

\* the '<NEW>' sentinel
NEW_SENTINEL == <<"<", "N", "E", "W", ">">>

\* a variable not assigned yet
Unset == [kind |-> "Unset"]

None == [kind |-> "None"]
Change(key, old, new) == [kind |-> "Change", Key |-> key, OldValue |-> old, NewValue |-> new]
KeyError == [kind |-> "KeyError"]
\* the loop of new_or_changed_option goes on to the next option
Continue == [kind |-> "Continue"]

\* f"{Namespace}:{OptionName}"
KeyOf(o) == o.Namespace \o ":" \o o.OptionName

\* A desired setting always carries a Value; an observed option may lack one.
Setting(ns, on, v) == [Namespace |-> ns, OptionName |-> on, Value |-> v]
Option(ns, on, hv, v) == [Namespace |-> ns, OptionName |-> on, hasValue |-> hv, Value |-> v]

\* elasticbeanstalk_env.py: the body of the loop for an observed option whose
\* (Namespace, OptionName) equals the desired setting's.
env_compare_SubsetDropped(opt, stg) ==
    LET compare_option_setting == opt.hasValue /\ opt.Value = stg.Value
    IN  IF compare_option_setting THEN None
        ELSE IF opt.hasValue
             THEN Change(KeyOf(opt), opt.Value, stg.Value)
             ELSE Continue

env_compare_SubsetEverywhere(opt, stg) ==
    LET set_setting == TokenSet(stg.Value)
        set_option == IF opt.hasValue THEN TokenSet(opt.Value) ELSE {}
        compare_option_setting == opt.hasValue /\ opt.Value = stg.Value
    IN  IF set_setting \subseteq set_option \/ compare_option_setting
        THEN None
        ELSE IF opt.hasValue
             THEN Change(KeyOf(opt), opt.Value, stg.Value)
             ELSE Continue

env_compare(opt, stg) ==
    LET check_namespace == stg.Namespace \in SpecialNamespaces
        check_option_name == stg.OptionName \in SpecialOptionNames
        set_setting == TokenSet(stg.Value)
        set_option == IF opt.hasValue THEN TokenSet(opt.Value) ELSE {}
        check_setting_values == set_setting \subseteq set_option
        compare_option_setting == opt.hasValue /\ opt.Value = stg.Value
    IN  IF (check_namespace /\ check_option_name /\ check_setting_values)
           \/ compare_option_setting
        THEN None
        ELSE IF opt.hasValue
             THEN Change(KeyOf(opt), opt.Value, stg.Value)
             ELSE Continue

RECURSIVE env_scan_NamespaceOnly(_, _, _)
env_scan_NamespaceOnly(opts, s, i) ==
    IF i > Len(opts) THEN Change(KeyOf(s), NEW_SENTINEL, s.Value)
    ELSE IF opts[i].Namespace = s.Namespace
         THEN LET r == env_compare(opts[i], s) IN
              IF r = Continue THEN env_scan_NamespaceOnly(opts, s, i + 1) ELSE r
         ELSE env_scan_NamespaceOnly(opts, s, i + 1)

RECURSIVE env_scan(_, _, _)
env_scan(opts, s, i) ==
    IF i > Len(opts) THEN Change(KeyOf(s), NEW_SENTINEL, s.Value)
    ELSE IF opts[i].Namespace = s.Namespace /\ opts[i].OptionName = s.OptionName
         THEN LET r == env_compare(opts[i], s) IN
              IF r = Continue THEN env_scan(opts, s, i + 1) ELSE r
         ELSE env_scan(opts, s, i + 1)

\* elasticbeanstalk_env.py new_or_changed_option
env_new_or_changed_option(opts, s) == env_scan(opts, s, 1)

\* elasticbeanstalk_option_settings.py: the body of the loop for a matching
\* option.  The subset test compares the desired tokens with themselves;
\* option["Value"] is read only when that test does not short-circuit.
optset_compare(opt, stg) ==
    LET special == stg.Namespace \in SpecialNamespaces
                   /\ stg.OptionName \in SpecialOptionNames
                   /\ TokenSet(stg.Value) \subseteq TokenSet(stg.Value)
    IN  IF special THEN None
        ELSE IF ~opt.hasValue THEN KeyError
        ELSE IF opt.Value = stg.Value THEN None
        ELSE Change(KeyOf(opt), opt.Value, stg.Value)

RECURSIVE optset_scan(_, _, _)
optset_scan(opts, s, i) ==
    IF i > Len(opts) THEN Change(KeyOf(s), NEW_SENTINEL, s.Value)
    ELSE IF opts[i].Namespace = s.Namespace /\ opts[i].OptionName = s.OptionName
         THEN optset_compare(opts[i], s)
         ELSE optset_scan(opts, s, i + 1)

\* elasticbeanstalk_option_settings.py new_or_changed_option
optset_new_or_changed_option(opts, s) == optset_scan(opts, s, 1)

\* elasticbeanstalk_configuration_template.py: the same text as in
\* elasticbeanstalk_option_settings.py.
cfgtpl_compare(opt, stg) ==
    LET special == stg.Namespace \in SpecialNamespaces
                   /\ stg.OptionName \in SpecialOptionNames
                   /\ TokenSet(stg.Value) \subseteq TokenSet(stg.Value)
    IN  IF special THEN None
        ELSE IF ~opt.hasValue THEN KeyError
        ELSE IF opt.Value = stg.Value THEN None
        ELSE Change(KeyOf(opt), opt.Value, stg.Value)

RECURSIVE cfgtpl_scan(_, _, _)
cfgtpl_scan(opts, s, i) ==
    IF i > Len(opts) THEN Change(KeyOf(s), NEW_SENTINEL, s.Value)
    ELSE IF opts[i].Namespace = s.Namespace /\ opts[i].OptionName = s.OptionName
         THEN cfgtpl_compare(opts[i], s)
         ELSE cfgtpl_scan(opts, s, i + 1)

\* elasticbeanstalk_configuration_template.py new_or_changed_option
cfgtpl_new_or_changed_option(opts, s) == cfgtpl_scan(opts, s, 1)

-----------------------------------------------------------------------------
(* Environment differ: update_required of elasticbeanstalk_env.py          *)

\* Python's None among the scalar fields (labels and names are strings).
PyNone == "<None>"

\* The observed environment: a field may be missing from the dict.
Env(hv, v, ht, tn) ==
    [hasVersionLabel |-> hv, VersionLabel |-> v, hasTemplateName |-> ht, TemplateName |-> tn]

\* module.params always holds every key of argument_spec; an argument the
\* caller did not give is None.
Params(v, tn, os, d, ssn) ==
    [version_label |-> v, template_name |-> tn, option_settings |-> os, description |-> d,
     solution_stack_name |-> ssn]

\* The three objects update_required can be handed as env_settings:
\* one element of the ConfigurationSettings list (what
\* describe_env_config_settings returns), the whole response, or None.
SettingsDescription(opts) == [shape |-> "description", OptionSettings |-> opts]
SettingsResponse(opts) ==
    [shape |-> "response", ConfigurationSettings |-> <<[OptionSettings |-> opts]>>]
SettingsNone == [shape |-> "None"]

\* lines 269-270: a missing VersionLabel is written into env as None.
env_with_version_label(e) ==
    IF ~e.hasVersionLabel
    THEN [e EXCEPT !.hasVersionLabel = TRUE, !.VersionLabel = PyNone]
    ELSE e

\* lines 271-272
version_label_updates(e, p) ==
    IF e.VersionLabel # p.version_label
    THEN <<Change("VersionLabel", e.VersionLabel, p.version_label)>>
    ELSE <<>>

\* lines 274-277
template_name_updates(e, p) ==
    IF ~e.hasTemplateName
    THEN <<Change("TemplateName", PyNone, p.template_name)>>
    ELSE IF e.TemplateName # p.template_name
         THEN <<Change("TemplateName", e.TemplateName, p.template_name)>>
         ELSE <<>>

RECURSIVE option_settings_updates_NewestFirst(_, _, _)
option_settings_updates_NewestFirst(opts, settings, i) ==
    IF i > Len(settings) THEN <<>>
    ELSE LET c == env_new_or_changed_option(opts, settings[i]) IN
         option_settings_updates_NewestFirst(opts, settings, i + 1)
         \o (IF c # None THEN <<c>> ELSE <<>>)

\* lines 281-284
RECURSIVE option_settings_updates(_, _, _)
option_settings_updates(opts, settings, i) ==
    IF i > Len(settings) THEN <<>>
    ELSE LET c == env_new_or_changed_option(opts, settings[i]) IN
         (IF c # None THEN <<c>> ELSE <<>>) \o option_settings_updates(opts, settings, i + 1)

\* line 279: env_settings["ConfigurationSettings"][0]["OptionSettings"]
read_options(es) ==
    IF es.shape = "response" THEN [raised |-> "", options |-> es.ConfigurationSettings[1].OptionSettings]
    ELSE IF es.shape = "description" THEN [raised |-> "KeyError", options |-> <<>>]
    ELSE [raised |-> "TypeError", options |-> <<>>]

\* update_required(env, env_settings, params): what it raises, what it
\* returns, and the env dict as the call leaves it.
update_required(e, es, p) ==
    LET e1 == env_with_version_label(e)
        scalars == version_label_updates(e1, p) \o template_name_updates(e1, p)
        r == read_options(es)
    IN  IF r.raised # ""
        THEN [raised |-> r.raised, updates |-> <<>>, env |-> e1]
        ELSE [raised |-> "",
              updates |-> scalars \o option_settings_updates(r.options, p.option_settings, 1),
              env |-> e1]

-----------------------------------------------------------------------------
(* Retention selector and cleanup of elasticbeanstalk_version.py           *)

\* Seconds per day, the factor of days_to_store.
SecondsPerDay == 86400

\* An optional integer parameter: <<>> is None, <<n>> is n.
IsNone(x) == x = <<>>
Truthy(x) == x # <<>> /\ x[1] # 0
Val(x) == x[1]

\* A function result that is None or a non-empty list.
NoneList == [isNone |-> TRUE, list |-> <<>>]
SomeList(l) == [isNone |-> FALSE, list |-> l]
\* `None if len(l) == 0 else l`
NoneIfEmpty(l) == IF Len(l) = 0 THEN NoneList ELSE SomeList(l)

VersionRecord(label, created, updated) ==
    [VersionLabel |-> label, DateCreated |-> created, DateUpdated |-> updated]

RECURSIVE InsertByDateCreated_ByDateUpdated(_, _)
InsertByDateCreated_ByDateUpdated(sorted, x) ==
    IF sorted = <<>> THEN <<x>>
    ELSE IF Head(sorted).DateUpdated < x.DateUpdated THEN <<x>> \o sorted
    ELSE <<Head(sorted)>> \o InsertByDateCreated_ByDateUpdated(Tail(sorted), x)

\* sorted(..., key=itemgetter("DateCreated"), reverse=True) is stable: x goes
\* after every element whose DateCreated is not smaller.
RECURSIVE InsertByDateCreated(_, _)
InsertByDateCreated(sorted, x) ==
    IF sorted = <<>> THEN <<x>>
    ELSE IF Head(sorted).DateCreated < x.DateCreated THEN <<x>> \o sorted
    ELSE <<Head(sorted)>> \o InsertByDateCreated(Tail(sorted), x)

RECURSIVE SortByDateCreated(_, _)
SortByDateCreated(done, rest) ==
    IF rest = <<>> THEN done
    ELSE SortByDateCreated(InsertByDateCreated(done, Head(rest)), Tail(rest))

\* list_versions_sorted; the caller's `None` for an empty list is the empty
\* list here, tested by the action that follows.
list_versions_sorted(vs) == SortByDateCreated(<<>>, vs)

get_cleanup_versions_by_date_NoDeployedFilter(vs, deployed_versions, days, t) ==
    LET targetTime == t - (SecondsPerDay * days)
        Keep(v) == v.DateUpdated < targetTime
    IN  NoneIfEmpty(SelectSeq(vs, Keep))

get_cleanup_versions_by_date(vs, deployed_versions, days, t) ==
    LET targetTime == t - (SecondsPerDay * days)
        Keep(v) == v.DateUpdated < targetTime /\ v.VersionLabel \notin deployed_versions
    IN  NoneIfEmpty(SelectSeq(vs, Keep))

RECURSIVE delete_list_count_CutoffOneLater(_, _, _, _)
delete_list_count_CutoffOneLater(vs, deployed_versions, files, index) ==
    IF index > Len(vs) - 1 THEN <<>>
    ELSE (IF index > files /\ vs[index + 1].VersionLabel \notin deployed_versions
          THEN <<vs[index + 1]>> ELSE <<>>)
         \o delete_list_count_CutoffOneLater(vs, deployed_versions, files, index + 1)

RECURSIVE delete_list_count(_, _, _, _)
delete_list_count(vs, deployed_versions, files, index) ==
    IF index > Len(vs) - 1 THEN <<>>
    ELSE (IF index > (files - 1) /\ vs[index + 1].VersionLabel \notin deployed_versions
          THEN <<vs[index + 1]>> ELSE <<>>)
         \o delete_list_count(vs, deployed_versions, files, index + 1)

\* the spec's reading: deployed records are set aside before positions count
get_cleanup_versions_by_files_RankRemaining(vs, deployed_versions, files) ==
    LET Remaining(v) == v.VersionLabel \notin deployed_versions
        rest == SelectSeq(vs, Remaining)
    IN  NoneIfEmpty(IF files >= Len(rest) THEN <<>> ELSE SubSeq(rest, files + 1, Len(rest)))

\* enumerate() counts from 0; vs[index + 1] is the record at Python index `index`.
get_cleanup_versions_by_files(vs, deployed_versions, files) ==
    NoneIfEmpty(delete_list_count(vs, deployed_versions, files, 0))

\* The choice made when both policies selected something: the spec's reading,
\* the shorter list.
both_selected_Smaller(days_list, count_list) ==
    IF Len(count_list.list) < Len(days_list.list) THEN count_list ELSE days_list

\* line 164
both_selected(days_list, count_list) ==
    IF Len(count_list.list) < Len(days_list.list) THEN days_list ELSE count_list

\* the spec's reading: nothing unless both policies select something
get_cleanup_versions_BothOrNothing(vs, deployed_versions, days, files, t) ==
    IF Truthy(days) /\ Truthy(files)
    THEN LET days_list == get_cleanup_versions_by_date(vs, deployed_versions, Val(days), t)
             count_list == get_cleanup_versions_by_files(vs, deployed_versions, Val(files))
         IN  IF ~count_list.isNone /\ ~days_list.isNone THEN both_selected(days_list, count_list)
             ELSE NoneList
    ELSE IF Truthy(days) /\ IsNone(files)
         THEN get_cleanup_versions_by_date(vs, deployed_versions, Val(days), t)
    ELSE IF Truthy(files) /\ IsNone(days)
         THEN get_cleanup_versions_by_files(vs, deployed_versions, Val(files))
    ELSE NoneList

\* get_cleanup_versions; a fall through every branch returns None.
get_cleanup_versions(vs, deployed_versions, days, files, t) ==
    IF Truthy(days) /\ Truthy(files)
    THEN LET days_list == get_cleanup_versions_by_date(vs, deployed_versions, Val(days), t)
             count_list == get_cleanup_versions_by_files(vs, deployed_versions, Val(files))
         IN  IF ~count_list.isNone /\ ~days_list.isNone THEN both_selected(days_list, count_list)
             ELSE IF days_list.isNone /\ ~count_list.isNone THEN count_list
             ELSE IF count_list.isNone /\ ~days_list.isNone THEN days_list
             ELSE NoneList
    ELSE IF Truthy(days) /\ IsNone(files)
         THEN get_cleanup_versions_by_date(vs, deployed_versions, Val(days), t)
    ELSE IF Truthy(files) /\ IsNone(days)
         THEN get_cleanup_versions_by_files(vs, deployed_versions, Val(files))
    ELSE NoneList

-----------------------------------------------------------------------------
(* Completion waiter of elasticbeanstalk_env.py                            *)

\* sleep(15)
PollInterval == 15

\* An environment as describe_environments returns it.
EnvRecord(status, health, v) ==
    [Status |-> status, Health |-> health,
     hasVersionLabel |-> TRUE, VersionLabel |-> v,
     hasTemplateName |-> FALSE, TemplateName |-> ""]

status_is_ready_HealthGreen(e) == e.Health = "Green"

status_is_ready(e) == e.Status = "Ready"
health_is_green(e) == e.Health = "Green"
health_is_grey(e) == e.Health = "Grey"
terminated(e) == e.Status = "Terminated"
version_is_updated(vl, e) == vl = "" \/ e.VersionLabel = vl

\* the predicates wait_for is called with; the last is the lambda of main()
TestFuncs == {"status_is_ready", "health_is_green", "health_is_grey", "terminated",
              "ready_and_version_is_updated"}

TestFunc(tf, vl, e) ==
    CASE tf = "status_is_ready" -> status_is_ready(e)
      [] tf = "health_is_green" -> health_is_green(e)
      [] tf = "health_is_grey" -> health_is_grey(e)
      [] tf = "terminated" -> terminated(e)
      [] tf = "ready_and_version_is_updated" -> status_is_ready(e) /\ version_is_updated(vl, e)

\* list.remove(x): drops the first element equal to x.
RECURSIVE RemoveFirst(_, _)
RemoveFirst(l, x) ==
    IF l = <<>> THEN <<>>
    ELSE IF Head(l) = x THEN Tail(l)
    ELSE <<Head(l)>> \o RemoveFirst(Tail(l), x)

\* `for env in envs: if env["Status"] in ignored_statuses: envs.remove(env)`:
\* the loop walks the list by position while the list shrinks under it.
RECURSIVE remove_ignored(_, _, _)
remove_ignored(envs, ignored_statuses, i) ==
    IF i > Len(envs) THEN envs
    ELSE IF envs[i].Status \in ignored_statuses
         THEN remove_ignored(RemoveFirst(envs, envs[i]), ignored_statuses, i + 1)
         ELSE remove_ignored(envs, ignored_statuses, i + 1)

\* describe_env on the Environments list the client returned
describe_env(environments, ignored_statuses) ==
    LET envs == IF Len(environments) > 1
                THEN remove_ignored(environments, ignored_statuses, 1)
                ELSE environments
    IN  IF Len(environments) > 1 /\ Len(envs) > 1
        THEN [raised |-> "MoreThanOneEnvironmentFound", env |-> Unset]
        ELSE IF Len(envs) = 0 THEN [raised |-> "EnvironmentNotFound", env |-> Unset]
        ELSE [raised |-> "", env |-> envs[1]]

deadline_passed_OneIntervalLate(t, deadline) == t > deadline + PollInterval

\* line 198
deadline_passed(t, deadline) == t > deadline

wait_for_iteration_DeadlineFirst(tf, vl, environments, client_error, t, deadline) ==
    IF client_error # "" THEN [state |-> "Failed", error |-> client_error]
    ELSE LET d == describe_env(environments, {}) IN
         IF d.raised # "" THEN [state |-> "Failed", error |-> d.raised]
         ELSE IF deadline_passed(t, deadline) THEN [state |-> "TimedOut", error |-> "ValueError"]
         ELSE IF TestFunc(tf, vl, d.env) THEN [state |-> "Satisfied", error |-> ""]
         ELSE [state |-> "Polling", error |-> ""]

wait_for_iteration_VanishedIsTerminated(tf, vl, environments, client_error, t, deadline) ==
    IF client_error # "" THEN [state |-> "Failed", error |-> client_error]
    ELSE LET d == describe_env(environments, {}) IN
         IF d.raised = "EnvironmentNotFound" /\ tf = "terminated"
         THEN [state |-> "Satisfied", error |-> ""]
         ELSE IF d.raised # "" THEN [state |-> "Failed", error |-> d.raised]
         ELSE IF TestFunc(tf, vl, d.env) THEN [state |-> "Satisfied", error |-> ""]
         ELSE IF deadline_passed(t, deadline) THEN [state |-> "TimedOut", error |-> "ValueError"]
         ELSE [state |-> "Polling", error |-> ""]

\* One pass of the `while True` of wait_for.  client_error is the ClientError
\* describe_environments raised ("" for none), environments the list it
\* returned, t the value of time() at line 198.
wait_for_iteration(tf, vl, environments, client_error, t, deadline) ==
    IF client_error # "" THEN [state |-> "Failed", error |-> client_error]
    ELSE LET d == describe_env(environments, {}) IN
         IF d.raised # "" THEN [state |-> "Failed", error |-> d.raised]
         ELSE IF TestFunc(tf, vl, d.env) THEN [state |-> "Satisfied", error |-> ""]
         ELSE IF deadline_passed(t, deadline) THEN [state |-> "TimedOut", error |-> "ValueError"]
         ELSE [state |-> "Polling", error |-> ""]

-----------------------------------------------------------------------------
(* Lookups and differs of the application, version and template modules    *)

\* str truthiness of an optional string parameter
PyTruthy(s) == s # PyNone /\ s # ""

\* elasticbeanstalk_app.py describe_app on the list of matches
describe_app(apps) ==
    IF Len(apps) = 0 THEN [raised |-> "ApplicationNotFound", app |-> None]
    ELSE IF Len(apps) > 1 THEN [raised |-> "MoreThanOneApplicationFound", app |-> None]
    ELSE [raised |-> "", app |-> apps[1]]

\* elasticbeanstalk_version.py describe_version: `None if len(versions) != 1`
describe_version(vs) == IF Len(vs) # 1 THEN None ELSE vs[1]

\* elasticbeanstalk_configuration_template.py describe_configuration_template
describe_configuration_template(ts) == IF Len(ts) # 1 THEN None ELSE ts[1]

RECURSIVE cfgtpl_option_settings_updates(_, _, _)
cfgtpl_option_settings_updates(opts, settings, i) ==
    IF i > Len(settings) THEN <<>>
    ELSE LET c == cfgtpl_new_or_changed_option(opts, settings[i]) IN
         (IF c # None THEN <<c>> ELSE <<>>)
         \o cfgtpl_option_settings_updates(opts, settings, i + 1)

\* elasticbeanstalk_configuration_template.py update_required; a KeyError of
\* new_or_changed_option leaves the function as it is raised.
cfgtpl_update_required(ct, p) ==
    LET stack == IF PyTruthy(p.solution_stack_name)
                    /\ ct.SolutionStackName # p.solution_stack_name
                 THEN <<Change("SolutionStackName", ct.SolutionStackName,
                               p.solution_stack_name)>>
                 ELSE <<>>
        descr == IF PyTruthy(p.description) /\ ct.Description # p.description
                 THEN <<Change("Description", ct.Description, p.description)>>
                 ELSE <<>>
        opts == cfgtpl_option_settings_updates(ct.OptionSettings, p.option_settings, 1)
    IN  IF \E i \in DOMAIN opts : opts[i] = KeyError
        THEN [raised |-> "KeyError", updates |-> <<>>]
        ELSE [raised |-> "", updates |-> stack \o descr \o opts]

\* elasticbeanstalk_configurationtemplate.py update_required.  params is the
\* dict the caller hands over: it may lack the key version_label (the
\* module's own argument_spec has none).  The block of lines 90-91 is
\* repeated at lines 93-94; the loop of lines 96-99 reads the undefined name
\* `options` in its first iteration.
configurationtemplate_update_required(ct, p) ==
    LET stack == IF PyTruthy(p.solution_stack_name)
                    /\ ct.SolutionStackName # p.solution_stack_name
                 THEN <<Change("SolutionStackName", ct.SolutionStackName,
                               p.solution_stack_name)>>
                 ELSE <<>>
        label == IF ct.VersionLabel # p.version_label
                 THEN <<Change("VersionLabel", ct.VersionLabel, p.version_label)>>
                 ELSE <<>>
    IN  IF "version_label" \notin DOMAIN p
        THEN [raised |-> "KeyError", updates |-> <<>>]
        ELSE IF PyTruthy(p.version_label) /\ ~ct.hasVersionLabel
        THEN [raised |-> "KeyError", updates |-> <<>>]
        ELSE IF Len(p.option_settings) > 0
        THEN [raised |-> "NameError", updates |-> <<>>]
        ELSE IF PyTruthy(p.version_label)
        THEN [raised |-> "", updates |-> stack \o label \o label]
        ELSE [raised |-> "", updates |-> stack]

-----------------------------------------------------------------------------
(* Idle values of the components a specification does not exercise         *)

OptIdle ==
    /\ setting = Unset
    /\ options = <<>>
    /\ change = Unset
    /\ impl = ""

DiffIdle ==
    /\ env = Unset
    /\ env_settings = Unset
    /\ params = Unset
    /\ updates = <<>>
    /\ diff_pc = "idle"

CleanupIdle ==
    /\ remote_versions = <<>>
    /\ remote_deployed = <<>>
    /\ days_to_store = <<>>
    /\ files_to_store = <<>>
    /\ now = 0
    /\ versions = <<>>
    /\ versions_to_delete = NoneList
    /\ deleted = {}
    /\ delete_calls = <<>>
    /\ delete_errors = <<>>
    /\ cleanup_pc = "idle"
    /\ cleanup_result = Unset

RunIdle ==
    /\ kind = "none"
    /\ state = "none"
    /\ remote = <<>>
    /\ resource = Unset
    /\ run_pc = "idle"
    /\ writes = <<>>
    /\ result = Unset
    /\ wait_timeout = 0
    /\ testfunc = "none"
    /\ clock = 0
    /\ timeout_time = 0
    /\ polls = 0
    /\ fetched = <<>>
    /\ wait_state = "Idle"
    /\ wait_error = ""

-----------------------------------------------------------------------------
(* Specification of one call of new_or_changed_option                      *)

Settings == {Setting(ns, on, v) : ns \in Namespaces, on \in OptionNames, v \in Values}

\* An observed option under another key, carrying the desired Value.
Decoy(s) ==
    Option(s.Namespace,
           IF s.OptionName = "InstanceType" THEN "Subnets" ELSE "InstanceType",
           TRUE, s.Value)

\* The observed entry under the desired key: none, one without a Value, or
\* one with any Value.  (Namespace, OptionName) is unique in the list.
Matches(s) ==
    {<<>>} \cup {<<Option(s.Namespace, s.OptionName, FALSE, <<>>)>>}
           \cup {<<Option(s.Namespace, s.OptionName, TRUE, v)>> : v \in Values}

ObservedLists(s) == {pre \o m : pre \in {<<>>, <<Decoy(s)>>}, m \in Matches(s)}

OptInit ==
    /\ setting \in Settings
    /\ options \in ObservedLists(setting)
    /\ change = Unset
    /\ impl = ""
    /\ DiffIdle /\ CleanupIdle /\ RunIdle

CallEnv ==
    /\ impl = ""
    /\ impl' = "env"
    /\ change' = env_new_or_changed_option(options, setting)
    /\ UNCHANGED <<setting, options, diffVars, cleanupVars, runVars>>

CallOptionSettings ==
    /\ impl = ""
    /\ impl' = "option_settings"
    /\ change' = optset_new_or_changed_option(options, setting)
    /\ UNCHANGED <<setting, options, diffVars, cleanupVars, runVars>>

CallConfigurationTemplate ==
    /\ impl = ""
    /\ impl' = "configuration_template"
    /\ change' = cfgtpl_new_or_changed_option(options, setting)
    /\ UNCHANGED <<setting, options, diffVars, cleanupVars, runVars>>

OptNext == CallEnv \/ CallOptionSettings \/ CallConfigurationTemplate

OptSpec == OptInit /\ [][OptNext]_vars

\* The observed entry the loop finds first under the desired key.
RECURSIVE FirstMatch(_, _, _)
FirstMatch(opts, s, i) ==
    IF i > Len(opts) THEN 0
    ELSE IF opts[i].Namespace = s.Namespace /\ opts[i].OptionName = s.OptionName THEN i
    ELSE FirstMatch(opts, s, i + 1)

IsSpecial(s) == s.Namespace \in SpecialNamespaces /\ s.OptionName \in SpecialOptionNames

HasValuedMatch == FirstMatch(options, setting, 1) > 0
                  /\ options[FirstMatch(options, setting, 1)].hasValue
Observed == options[FirstMatch(options, setting, 1)]

\* C1: in every implementation, a desired setting of the special
\* namespace/option set whose tokens are not all among the tokens of the
\* observed Value under the same key yields the Change
\* (Namespace:OptionName, observed Value, desired Value).
C1_NotSubsetIsChange ==
    (/\ impl # ""
     /\ IsSpecial(setting)
     /\ HasValuedMatch
     /\ ~(TokenSet(setting.Value) \subseteq TokenSet(Observed.Value)))
    => change = Change(KeyOf(setting), Observed.Value, setting.Value)

\* C2: a desired setting of the special set whose tokens are all tokens of
\* the observed Value under the same key yields no Change, also when the two
\* Value strings differ.
C2_SubsetIsNoChange ==
    (/\ impl # ""
     /\ IsSpecial(setting)
     /\ HasValuedMatch
     /\ TokenSet(setting.Value) \subseteq TokenSet(Observed.Value))
    => change = None

C2_Witness ==
    /\ impl = "env"
    /\ IsSpecial(setting)
    /\ HasValuedMatch
    /\ setting.Value = <<"a">>
    /\ Observed.Value = <<"a", ",", "b">>
    /\ change = None

\* C11: in every implementation, a desired setting with no observed entry
\* under its (Namespace, OptionName) yields exactly the Change
\* (Namespace:OptionName, "<NEW>", desired Value), inside and outside the
\* special set.
C11_NoEntryIsNew ==
    (impl # "" /\ FirstMatch(options, setting, 1) = 0)
    => change = Change(KeyOf(setting), NEW_SENTINEL, setting.Value)

\* a special setting, the observed list holding only an entry of the same
\* Namespace under another OptionName
C11_Witness ==
    /\ impl = "env"
    /\ IsSpecial(setting)
    /\ Len(options) = 1
    /\ FirstMatch(options, setting, 1) = 0
    /\ change = Change(KeyOf(setting), NEW_SENTINEL, setting.Value)

\* C12: outside the special set, a desired setting with an observed entry
\* that has a Value yields no Change exactly when the two Value strings are
\* equal, and the Change (Namespace:OptionName, observed Value, desired
\* Value) otherwise, also when the desired tokens are among the observed.
C12_PlainIsExactEquality ==
    (impl # "" /\ ~IsSpecial(setting) /\ HasValuedMatch)
    => /\ change = None <=> Observed.Value = setting.Value
       /\ change # None
              => change = Change(KeyOf(setting), Observed.Value, setting.Value)

C12_Witness ==
    /\ impl = "env"
    /\ ~IsSpecial(setting)
    /\ HasValuedMatch
    /\ setting.Value = <<"a">>
    /\ Observed.Value = <<"a", ",", "b">>
    /\ change = Change(KeyOf(setting), Observed.Value, setting.Value)

-----------------------------------------------------------------------------
(* Specification of one call of update_required                            *)

\* Longest list of desired settings, and of observed options.
MaxSettings == 2

VersionLabels == {"", "v1", "v2"}
TemplateNames == {"", "t1"}
DiffKeys == {<<"aws:ec2:vpc", "Subnets">>,
             <<"aws:autoscaling:launchconfiguration", "InstanceType">>}
DiffValues == {<<"a">>, <<"a", ",", "b">>}

UniqueKeys(l) ==
    \A i, j \in DOMAIN l :
        (l[i].Namespace = l[j].Namespace /\ l[i].OptionName = l[j].OptionName) => i = j

SeqsUpTo(S, n) == UNION {[1..k -> S] : k \in 0..n}

DesiredLists ==
    {l \in SeqsUpTo({Setting(k[1], k[2], v) : k \in DiffKeys, v \in DiffValues}, MaxSettings) :
        UniqueKeys(l)}

ObservedOptionLists ==
    {l \in SeqsUpTo({Option(k[1], k[2], TRUE, v) : k \in DiffKeys, v \in DiffValues}
                    \cup {Option(k[1], k[2], FALSE, <<>>) : k \in DiffKeys}, MaxSettings) :
        UniqueKeys(l)}

Envs ==
    {Env(TRUE, v, TRUE, tn) : v \in VersionLabels, tn \in TemplateNames}
    \cup {Env(FALSE, "", TRUE, tn) : tn \in TemplateNames}
    \cup {Env(TRUE, v, FALSE, "") : v \in VersionLabels}
    \cup {Env(FALSE, "", FALSE, "")}

DiffInit ==
    /\ env \in Envs
    /\ \E opts \in ObservedOptionLists :
          env_settings \in {SettingsDescription(opts), SettingsResponse(opts), SettingsNone}
    /\ \E v \in {PyNone, "", "v1"}, tn \in {PyNone} \cup TemplateNames, os \in DesiredLists :
          params = Params(v, tn, os, PyNone, PyNone)
    /\ updates = <<>>
    /\ diff_pc = "call"
    /\ OptIdle /\ CleanupIdle /\ RunIdle

UpdateRequiredReturns ==
    /\ diff_pc = "call"
    /\ update_required(env, env_settings, params).raised = ""
    /\ updates' = update_required(env, env_settings, params).updates
    /\ env' = update_required(env, env_settings, params).env
    /\ diff_pc' = "returned"
    /\ UNCHANGED <<env_settings, params, optVars, cleanupVars, runVars>>

UpdateRequiredRaises ==
    /\ diff_pc = "call"
    /\ update_required(env, env_settings, params).raised # ""
    /\ updates' = <<>>
    /\ env' = update_required(env, env_settings, params).env
    /\ diff_pc' = update_required(env, env_settings, params).raised
    /\ UNCHANGED <<env_settings, params, optVars, cleanupVars, runVars>>

DiffNext == UpdateRequiredReturns \/ UpdateRequiredRaises

DiffSpec == DiffInit /\ [][DiffNext]_vars

\* The option list the differ is meant to read from env_settings.
ObservedOptionsOf(es) ==
    IF es.shape = "response" THEN es.ConfigurationSettings[1].OptionSettings
    ELSE IF es.shape = "description" THEN es.OptionSettings
    ELSE <<>>

\* The desired setting s is satisfied by the observed options.
Satisfied(opts, s) ==
    \E i \in DOMAIN opts :
        /\ opts[i].Namespace = s.Namespace
        /\ opts[i].OptionName = s.OptionName
        /\ opts[i].hasValue
        /\ \/ opts[i].Value = s.Value
           \/ IsSpecial(s) /\ TokenSet(s.Value) \subseteq TokenSet(opts[i].Value)

\* The observed environment agrees with every field the caller declared.
\* (update_required has by now written a missing VersionLabel into env as None.)
EnvAgrees ==
    /\ env.VersionLabel = params.version_label
    /\ \/ env.hasTemplateName /\ env.TemplateName = params.template_name
       \/ ~env.hasTemplateName /\ params.template_name = PyNone
    /\ \A i \in DOMAIN params.option_settings :
          Satisfied(ObservedOptionsOf(env_settings), params.option_settings[i])

\* C7: when the observed environment agrees with the desired spec on every
\* declared field and every desired setting is satisfied, update_required
\* returns the empty change list.
C7_AgreeingEnvIsNoop ==
    (diff_pc = "returned" /\ EnvAgrees) => updates = <<>>

\* C15: a desired version label or template name that is "" or unspecified
\* yields no Change against an environment whose field is absent or "".
\* (After the call an absent VersionLabel reads None in env.)
C15_EmptyIsAbsent ==
    diff_pc = "returned" =>
        /\ (params.version_label \in {PyNone, ""} /\ env.VersionLabel \in {PyNone, ""})
               => \A i \in DOMAIN updates : updates[i].Key # "VersionLabel"
        /\ (/\ params.template_name \in {PyNone, ""}
            /\ (~env.hasTemplateName \/ env.TemplateName = ""))
               => \A i \in DOMAIN updates : updates[i].Key # "TemplateName"

\* the Changes of the returned list that are settings Changes
SettingsChanges ==
    LET IsSettingsChange(c) == c.Key \notin {"VersionLabel", "TemplateName"}
    IN  SelectSeq(updates, IsSettingsChange)

\* C23: every settings Change update_required returns has the key and the
\* Value of some desired setting, so an observed setting with no desired
\* counterpart yields no Change and an empty desired list yields no settings
\* Change; the settings Changes stand in the order of the desired settings.
C23_OnlyDesiredKeysInOrder ==
    diff_pc = "returned" =>
        LET desired == params.option_settings
            sc == SettingsChanges
        IN  /\ \A a \in DOMAIN sc :
                   \E i \in DOMAIN desired :
                       /\ sc[a].Key = KeyOf(desired[i])
                       /\ sc[a].NewValue = desired[i].Value
            /\ desired = <<>> => sc = <<>>
            /\ \A a, b \in DOMAIN sc : \A i, j \in DOMAIN desired :
                   (a < b /\ sc[a].Key = KeyOf(desired[i]) /\ sc[b].Key = KeyOf(desired[j]))
                       => i < j

\* one desired setting that differs, two observed options: the one without
\* a desired counterpart yields nothing
C23_Witness ==
    /\ diff_pc = "returned"
    /\ Len(params.option_settings) = 1
    /\ Len(ObservedOptionsOf(env_settings)) = 2
    /\ \A i \in 1..2 : ObservedOptionsOf(env_settings)[i].hasValue
    /\ Len(SettingsChanges) = 1
    /\ SettingsChanges[1].OldValue # NEW_SENTINEL

\* C24: a call of update_required leaves the desired parameters, the
\* observed environment record and the observed settings as they were.
C24_DifferIsPure ==
    [][diff_pc = "call" =>
          (env' = env /\ env_settings' = env_settings /\ params' = params)]_vars

-----------------------------------------------------------------------------
(* Specification of one call of update_required of a template module       *)

\* The configuration template handed to update_required (held in env).
ConfigurationTemplateRecords ==
    {[SolutionStackName |-> "s1", Description |-> "d1",
      hasVersionLabel |-> hv, VersionLabel |-> v, OptionSettings |-> opts] :
        hv \in BOOLEAN, v \in {"v1", "v2"}, opts \in ObservedOptionLists}

\* The params dict handed to update_required, with and without the key
\* version_label.
TemplateParams ==
    {Params(v, PyNone, os, d, ssn) :
        v \in {PyNone, "", "v1"}, os \in DesiredLists,
        d \in {PyNone, "d1", "d2"}, ssn \in {PyNone, "s1", "s2"}}
    \cup {[template_name |-> PyNone, option_settings |-> os, description |-> d,
           solution_stack_name |-> ssn] :
        os \in DesiredLists, d \in {PyNone, "d1", "d2"}, ssn \in {PyNone, "s1", "s2"}}

TemplateDiffInit ==
    /\ env \in ConfigurationTemplateRecords
    /\ ~env.hasVersionLabel => env.VersionLabel = "v1"
    /\ env_settings = Unset
    /\ params \in TemplateParams
    /\ updates = <<>>
    /\ diff_pc = "call"
    /\ OptIdle /\ CleanupIdle /\ RunIdle

\* elasticbeanstalk_configuration_template.py line 221
ConfigurationTemplateUpdateRequired ==
    /\ diff_pc = "call"
    /\ LET r == cfgtpl_update_required(env, params) IN
       /\ updates' = r.updates
       /\ diff_pc' = IF r.raised = "" THEN "returned:configuration_template"
                     ELSE "raised:configuration_template"
    /\ UNCHANGED <<env, env_settings, params, optVars, cleanupVars, runVars>>

\* elasticbeanstalk_configurationtemplate.py line 203
ConfigurationtemplateUpdateRequired ==
    /\ diff_pc = "call"
    /\ LET r == configurationtemplate_update_required(env, params) IN
       /\ updates' = r.updates
       /\ diff_pc' = IF r.raised = "" THEN "returned:configurationtemplate"
                     ELSE "raised:configurationtemplate"
    /\ UNCHANGED <<env, env_settings, params, optVars, cleanupVars, runVars>>

TemplateDiffNext ==
    ConfigurationTemplateUpdateRequired \/ ConfigurationtemplateUpdateRequired

TemplateDiffSpec == TemplateDiffInit /\ [][TemplateDiffNext]_vars

\* C20: over desired settings with unique keys, the change list any
\* update_required returns holds at most one Change per Key.
C20_OneChangePerKey ==
    diff_pc \in {"returned", "returned:configuration_template",
                 "returned:configurationtemplate"}
    => \A i, j \in DOMAIN updates : updates[i].Key = updates[j].Key => i = j

-----------------------------------------------------------------------------
(* Specification of one run of elasticbeanstalk_version with state=cleanup *)

Labels == {"A", "B", "C"}
LabelOrder == <<"A", "B", "C">>
CreatedDates == {0, SecondsPerDay}
UpdatedDates == {0, SecondsPerDay, 2 * SecondsPerDay}
\* time.time() of the run
RunTime == 2 * SecondsPerDay
PolicyValues == {<<>>, <<0>>, <<1>>, <<2>>}

\* The application's versions as the API lists them.  Labels are unique and
\* only ever compared, so the API order is taken to be the label order; each
\* label is absent or present with any pair of dates.
RECURSIVE RemoteVersionLists(_)
RemoteVersionLists(i) ==
    IF i > Len(LabelOrder) THEN {<<>>}
    ELSE LET rest == RemoteVersionLists(i + 1) IN
         rest \cup {<<VersionRecord(LabelOrder[i], c, u)>> \o r :
                        c \in CreatedDates, u \in UpdatedDates, r \in rest}

CleanupInit ==
    /\ remote_versions \in RemoteVersionLists(1)
    /\ remote_deployed \in SUBSET Labels
    /\ days_to_store \in PolicyValues
    /\ files_to_store \in PolicyValues
    /\ ~(IsNone(days_to_store) /\ IsNone(files_to_store))
    /\ now = RunTime
    /\ versions = <<>>
    /\ versions_to_delete = NoneList
    /\ deleted = {}
    /\ delete_calls = <<>>
    /\ delete_errors = <<>>
    /\ cleanup_pc = "start"
    /\ cleanup_result = Unset
    /\ OptIdle /\ DiffIdle /\ RunIdle

CleanupResult(c, out) == [kind |-> "exit_json", changed |-> c, output |-> out]

\* line 312
ListVersionsSorted ==
    /\ cleanup_pc = "start"
    /\ versions' = list_versions_sorted(remote_versions)
    /\ cleanup_pc' = "listed"
    /\ UNCHANGED <<remote_versions, remote_deployed, days_to_store, files_to_store, now,
                   versions_to_delete, deleted, delete_calls, delete_errors,
                   cleanup_result,
                   optVars, diffVars, runVars>>

\* lines 313-314
VersionsNotFound ==
    /\ cleanup_pc = "listed"
    /\ Len(versions) = 0
    /\ cleanup_result' = CleanupResult(FALSE, "Versions not found for application")
    /\ cleanup_pc' = "done"
    /\ UNCHANGED <<remote_versions, remote_deployed, days_to_store, files_to_store, now,
                   versions, versions_to_delete, deleted, delete_calls, delete_errors,
                   optVars, diffVars, runVars>>

\* line 316
GetCleanupVersions ==
    /\ cleanup_pc = "listed"
    /\ Len(versions) > 0
    /\ versions_to_delete' =
           get_cleanup_versions(versions, remote_deployed, days_to_store, files_to_store, now)
    /\ cleanup_pc' = "selected"
    /\ UNCHANGED <<remote_versions, remote_deployed, days_to_store, files_to_store, now,
                   versions, deleted, delete_calls, delete_errors,
                   cleanup_result,
                   optVars, diffVars, runVars>>

\* lines 317-318
NothingToRemove ==
    /\ cleanup_pc = "selected"
    /\ versions_to_delete.isNone
    /\ cleanup_result' = CleanupResult(FALSE, "Nothing to remove for given parameters")
    /\ cleanup_pc' = "done"
    /\ UNCHANGED <<remote_versions, remote_deployed, days_to_store, files_to_store, now,
                   versions, versions_to_delete, deleted, delete_calls, delete_errors,
                   optVars, diffVars, runVars>>

\* remove_versions taking every failure as it takes SourceBundleDeletionFailure
DeleteVersion_GoesOnAfterFailure ==
    /\ cleanup_pc = "selected"
    /\ ~versions_to_delete.isNone
    /\ Len(delete_calls) < Len(versions_to_delete.list)
    /\ LET label == versions_to_delete.list[Len(delete_calls) + 1].VersionLabel IN
       /\ delete_calls' = Append(delete_calls, label)
       /\ \E outcome \in {"ok", "SourceBundleDeletionFailure", "OtherError"} :
             /\ delete_errors' = Append(delete_errors, IF outcome = "ok" THEN "" ELSE outcome)
             /\ deleted' = IF outcome = "OtherError" THEN deleted ELSE deleted \cup {label}
             /\ UNCHANGED <<cleanup_pc, cleanup_result>>
    /\ UNCHANGED <<remote_versions, remote_deployed, days_to_store, files_to_store, now,
                   versions, versions_to_delete, optVars, diffVars, runVars>>

\* remove_versions, one iteration of its loop: the delete succeeds, or fails
\* with SourceBundleDeletionFailure (the version is gone, its S3 bundle was
\* not there), or fails otherwise and remove_versions returns False.
DeleteVersion ==
    /\ cleanup_pc = "selected"
    /\ ~versions_to_delete.isNone
    /\ Len(delete_calls) < Len(versions_to_delete.list)
    /\ LET label == versions_to_delete.list[Len(delete_calls) + 1].VersionLabel IN
       /\ delete_calls' = Append(delete_calls, label)
       /\ \E outcome \in {"ok", "SourceBundleDeletionFailure", "OtherError"} :
             /\ delete_errors' = Append(delete_errors, IF outcome = "ok" THEN "" ELSE outcome)
             /\ IF outcome = "OtherError"
                THEN /\ deleted' = deleted
                     /\ cleanup_pc' = "done"
                     /\ cleanup_result' =
                            CleanupResult(FALSE, "Unable to remove versions for application")
                ELSE /\ deleted' = deleted \cup {label}
                     /\ UNCHANGED <<cleanup_pc, cleanup_result>>
    /\ UNCHANGED <<remote_versions, remote_deployed, days_to_store, files_to_store, now,
                   versions, versions_to_delete, optVars, diffVars, runVars>>

\* remove_versions returned True: lines 320-321
Removed ==
    /\ cleanup_pc = "selected"
    /\ ~versions_to_delete.isNone
    /\ Len(delete_calls) = Len(versions_to_delete.list)
    /\ cleanup_result' = CleanupResult(TRUE, "Removed version(s) for given parameters")
    /\ cleanup_pc' = "done"
    /\ UNCHANGED <<remote_versions, remote_deployed, days_to_store, files_to_store, now,
                   versions, versions_to_delete, deleted, delete_calls, delete_errors,
                   optVars, diffVars, runVars>>

CleanupNext ==
    \/ ListVersionsSorted
    \/ VersionsNotFound
    \/ GetCleanupVersions
    \/ NothingToRemove
    \/ DeleteVersion
    \/ Removed

CleanupSpec == CleanupInit /\ [][CleanupNext]_vars

\* The two single-policy candidate lists of the run.
DaysList ==
    get_cleanup_versions_by_date(versions, remote_deployed, Val(days_to_store), now)
CountList ==
    get_cleanup_versions_by_files(versions, remote_deployed, Val(files_to_store))

BothSelected ==
    /\ cleanup_pc = "selected"
    /\ Truthy(days_to_store) /\ Truthy(files_to_store)
    /\ ~DaysList.isNone /\ ~CountList.isNone

C4_DeployedNeverSelected ==
    /\ \A i \in DOMAIN versions_to_delete.list :
           versions_to_delete.list[i].VersionLabel \notin remote_deployed
    /\ \A i \in DOMAIN delete_calls : delete_calls[i] \notin remote_deployed

\* a deployed record lies beyond the count cutoff and is old enough for the
\* age policy, other records were deleted, it was not
C4_Witness ==
    /\ cleanup_pc = "done"
    /\ cleanup_result.changed
    /\ Truthy(days_to_store) /\ Truthy(files_to_store)
    /\ \E i \in DOMAIN versions :
           /\ versions[i].VersionLabel \in remote_deployed
           /\ i - 1 > Val(files_to_store) - 1
           /\ versions[i].DateUpdated < now - SecondsPerDay * Val(days_to_store)
           /\ versions[i].VersionLabel \notin deleted
    /\ deleted # {}

\* the records of l from 0-indexed position n on
From(l, n) == IF n >= Len(l) THEN <<>> ELSE SubSeq(l, n + 1, Len(l))

\* C13: with no version deployed, get_cleanup_versions_by_files with
\* files_to_store = N returns exactly the records of the sorted list at
\* 0-indexed positions >= N, 'none' when the list has at most N records; a
\* run with the count policy alone selects exactly those.
C13_CountPolicyKeepsFirstN ==
    (cleanup_pc # "start" /\ remote_deployed = {} /\ ~IsNone(files_to_store))
    => LET N == Val(files_to_store)
           r == get_cleanup_versions_by_files(versions, remote_deployed, N)
       IN  /\ r = NoneIfEmpty(From(versions, N))
           /\ r.isNone <=> Len(versions) <= N
           /\ (cleanup_pc = "selected" /\ IsNone(days_to_store) /\ N > 0)
                  => versions_to_delete = r

\* three records, N = 1: exactly positions 1 and 2 were selected and deleted
C13_Witness ==
    /\ cleanup_pc = "done"
    /\ cleanup_result.changed
    /\ remote_deployed = {}
    /\ IsNone(days_to_store) /\ files_to_store = <<1>>
    /\ Len(versions) = 3
    /\ versions_to_delete.list = <<versions[2], versions[3]>>
    /\ delete_calls = <<versions[2].VersionLabel, versions[3].VersionLabel>>

\* C14: with only days_to_store set, get_cleanup_versions returns exactly the
\* non-deployed records whose DateUpdated is strictly less than
\* now - days_to_store * 86400, and 'none' when there is no such record.
C14_DaysPolicySelectsOlder ==
    (cleanup_pc = "selected" /\ ~IsNone(days_to_store) /\ IsNone(files_to_store))
    => LET Older(v) == /\ v.DateUpdated < now - Val(days_to_store) * SecondsPerDay
                       /\ v.VersionLabel \notin remote_deployed
       IN  versions_to_delete = NoneIfEmpty(SelectSeq(versions, Older))

\* a run that selected under the count policy alone
CountOnly == cleanup_pc = "selected" /\ IsNone(days_to_store) /\ Truthy(files_to_store)

\* the record at position i of the sorted list was selected for deletion
IsSelected(i) ==
    \E j \in DOMAIN versions_to_delete.list : versions_to_delete.list[j] = versions[i]

IsDeployed(i) == versions[i].VersionLabel \in remote_deployed

\* C17 as claimed: positions count over the records left after the deployed
\* ones are set aside; a non-deployed record is selected exactly when at
\* least files_to_store newer non-deployed records exist.
C17_DeployedTakeNoKeepSlot ==
    CountOnly =>
        \A i \in DOMAIN versions :
            ~IsDeployed(i) =>
                (IsSelected(i)
                     <=> Cardinality({k \in 1..(i - 1) : ~IsDeployed(k)}) >= Val(files_to_store))

\* C17 as amended: positions count over the whole sorted list, deployed
\* records included; a record is selected exactly when it is not deployed
\* and at least files_to_store records of any kind precede it.
C17_DeployedTakeKeepSlots ==
    CountOnly =>
        \A i \in DOMAIN versions :
            IsSelected(i) <=> (~IsDeployed(i) /\ i - 1 >= Val(files_to_store))

\* files_to_store = 1, the newest record is deployed: the newest non-deployed
\* record is selected
C17_Witness ==
    /\ CountOnly
    /\ files_to_store = <<1>>
    /\ Len(versions) = 3
    /\ IsDeployed(1) /\ ~IsDeployed(2) /\ ~IsDeployed(3)
    /\ IsSelected(2) /\ IsSelected(3)

\* C18 as claimed: under the count policy every selected record has a
\* DateUpdated no later than that of every kept non-deployed record.
C18_RankedByDateUpdated ==
    CountOnly =>
        \A i, k \in DOMAIN versions :
            (IsSelected(i) /\ ~IsSelected(k) /\ ~IsDeployed(k))
                => versions[i].DateUpdated <= versions[k].DateUpdated

\* C18 as amended: the run ranks the application's records by DateCreated
\* descending, and under the count policy every selected record has a
\* DateCreated no later than that of every kept non-deployed record,
\* whatever the DateUpdated values.
C18_RankedByDateCreated ==
    /\ cleanup_pc # "start" =>
           /\ Len(versions) = Len(remote_versions)
           /\ {versions[i] : i \in DOMAIN versions}
                  = {remote_versions[i] : i \in DOMAIN remote_versions}
           /\ \A i, j \in DOMAIN versions :
                  i < j => versions[i].DateCreated >= versions[j].DateCreated
    /\ CountOnly =>
           \A i, k \in DOMAIN versions :
               (IsSelected(i) /\ ~IsSelected(k) /\ ~IsDeployed(k))
                   => versions[i].DateCreated <= versions[k].DateCreated

\* a selected record was updated later than a kept one that was created later
C18_Witness ==
    /\ CountOnly
    /\ \E i, k \in DOMAIN versions :
           /\ IsSelected(i) /\ ~IsSelected(k) /\ ~IsDeployed(k)
           /\ versions[i].DateUpdated > versions[k].DateUpdated
           /\ versions[i].DateCreated < versions[k].DateCreated

BothSet == cleanup_pc = "selected" /\ Truthy(days_to_store) /\ Truthy(files_to_store)

Aborted == cleanup_pc = "done" /\ Len(delete_errors) > 0
           /\ delete_errors[Len(delete_errors)] = "OtherError"

\* C21: in remove_versions a delete failing with SourceBundleDeletionFailure
\* counts as success and the batch goes on with the next record; any other
\* failure aborts the batch at once: it is the last call made, and
\* remove_versions returns False.
C21_OnlyOtherFailuresAbort ==
    /\ Len(delete_errors) = Len(delete_calls)
    /\ Len(delete_calls) <= Len(versions_to_delete.list)
    /\ \A i \in DOMAIN delete_calls :
           /\ delete_calls[i] = versions_to_delete.list[i].VersionLabel
           /\ i < Len(delete_calls) => delete_errors[i] # "OtherError"
           /\ delete_errors[i] # "OtherError" => delete_calls[i] \in deleted
           /\ delete_errors[i] = "OtherError" =>
                  /\ cleanup_pc = "done"
                  /\ cleanup_result =
                         CleanupResult(FALSE, "Unable to remove versions for application")
    /\ (cleanup_pc = "done" /\ cleanup_result.changed) =>
           /\ Len(delete_calls) = Len(versions_to_delete.list)
           /\ \A i \in DOMAIN delete_errors : delete_errors[i] # "OtherError"

\* the first delete met SourceBundleDeletionFailure, the batch went on, the
\* second delete failed otherwise and the third record was never tried
C21_Witness ==
    /\ Aborted
    /\ Len(versions_to_delete.list) = 3
    /\ delete_errors = <<"SourceBundleDeletionFailure", "OtherError">>

\* C22: the result of an aborted batch carries the selected records that
\* were not processed, the failing record and every record after it.
C22_AbortReportsUnprocessed ==
    Aborted =>
        \E f \in DOMAIN cleanup_result \ {"kind", "changed", "output"} :
            cleanup_result[f] =
                [i \in 1..(Len(versions_to_delete.list) - Len(delete_calls) + 1) |->
                    versions_to_delete.list[Len(delete_calls) - 1 + i].VersionLabel]

\* C28: a cleanup run that deleted at least one version on the platform
\* reports changed=true, also when its batch was aborted later.
C28_DeletionIsReportedChanged ==
    (cleanup_pc = "done" /\ deleted # {}) => cleanup_result.changed

-----------------------------------------------------------------------------
(* The completion waiter as a state machine                                *)

WaitTimeouts == {0, 15, 30, 40}
\* seconds the clock moves between the start of a fetch and line 198
FetchLatencies == {0, 1}
ClientErrors == {"ClientError:Throttling", "ClientError:ServiceError"}

PollEnvs ==
    {EnvRecord(s, h, v) : s \in {"Launching", "Ready", "Terminating", "Terminated"},
                          h \in {"Green", "Grey"}, v \in {"v1", "v2"}}
\* What one describe_environments call of the waiter may return: nothing, one
\* environment, or one next to a terminated environment of the same name.
PolledLists ==
    SeqsUpTo(PollEnvs, 1) \cup {<<e, EnvRecord("Terminated", "Grey", "v1")>> : e \in PollEnvs}

\* line 187
StartWaitFor(tf) ==
    /\ testfunc' = tf
    /\ timeout_time' = clock + wait_timeout
    /\ polls' = 0
    /\ wait_state' = "Polling"
    /\ wait_error' = ""

WaitInit ==
    /\ kind = "wait"
    /\ state = "none"
    /\ remote = <<>>
    /\ resource = Unset
    /\ run_pc = "call"
    /\ writes = <<>>
    /\ result = Unset
    /\ wait_timeout \in WaitTimeouts
    /\ testfunc = "none"
    /\ clock = 0
    /\ timeout_time = 0
    /\ polls = 0
    /\ fetched = <<>>
    /\ wait_state = "Idle"
    /\ wait_error = ""
    /\ env = Unset
    /\ env_settings = Unset
    /\ \E v \in {PyNone, "", "v1"} : params = Params(v, PyNone, <<>>, PyNone, PyNone)
    /\ updates = <<>>
    /\ diff_pc = "idle"
    /\ OptIdle /\ CleanupIdle

\* a call wait_for(aws_eb, app_name, env_name, wait_timeout, testfunc)
WaitForCalled ==
    /\ kind = "wait"
    /\ run_pc = "call"
    /\ \E tf \in TestFuncs : StartWaitFor(tf)
    /\ run_pc' = "waiting"
    /\ UNCHANGED <<kind, state, remote, resource, writes, result, wait_timeout, clock, fetched,
                   optVars, diffVars, cleanupVars>>

\* lines 189-201: one pass of the loop, the sleep included
Tick ==
    /\ run_pc = "waiting"
    /\ wait_state = "Polling"
    /\ \E environments \in PolledLists, client_error \in {""} \cup ClientErrors,
          latency \in FetchLatencies :
          LET r == wait_for_iteration(testfunc, params.version_label, environments,
                                      client_error, clock + latency, timeout_time)
          IN  /\ client_error # "" => environments = fetched
              /\ fetched' = environments
              /\ wait_state' = r.state
              /\ wait_error' = r.error
              /\ clock' = IF r.state = "Polling" THEN clock + latency + PollInterval
                          ELSE clock + latency
    /\ polls' = polls + 1
    /\ UNCHANGED <<kind, state, remote, resource, run_pc, writes, result, wait_timeout,
                   testfunc, timeout_time, optVars, diffVars, cleanupVars>>

WaitNext == WaitForCalled \/ Tick

WaitSpec == WaitInit /\ [][WaitNext]_vars

\* The clock has moved by the sleeps of wait_for alone: every pass but a
\* final one slept PollInterval.
SleepOnlyClock ==
    clock = PollInterval * (IF wait_state = "Polling" THEN polls ELSE polls - 1)

\* C5 as claimed: with the clock advancing only by the sleeps, the timeout
\* error comes after at most wait_timeout/15 + 1 polls.
C5_TimeoutAfterQuotientPlusOne ==
    (wait_state = "TimedOut" /\ SleepOnlyClock)
        => PollInterval * polls <= wait_timeout + PollInterval

\* C5 as amended: no wait makes more than wait_timeout div 15 + 2 polls, a
\* wait still polling has made at most wait_timeout div 15 + 1, and with the
\* clock advancing only by the sleeps the timeout error comes at poll
\* wait_timeout div 15 + 2 (poll 4 for wait_timeout = 30).
C5_TimeoutAfterQuotientPlusTwo ==
    /\ polls <= wait_timeout \div PollInterval + 2
    /\ wait_state = "Polling" => polls <= wait_timeout \div PollInterval + 1
    /\ (wait_state = "TimedOut" /\ SleepOnlyClock)
           => polls = wait_timeout \div PollInterval + 2
    /\ wait_state = "TimedOut" => wait_error = "ValueError"

C5_Witness ==
    /\ wait_state = "TimedOut"
    /\ wait_timeout = 30
    /\ SleepOnlyClock
    /\ polls = 4

\* C10: a fetch of wait_for that fails with a rate-limit error does not end
\* the wait.
C10_ThrottlingDoesNotEndWait ==
    ~(wait_state = "Failed" /\ wait_error = "ClientError:Throttling")

\* C16: the wait after update_environment ends successfully at the first
\* poll whose environment has Status Ready and either carries the target
\* version label or no target version label was given.
C16_ReadyAndUpdatedEndsWait ==
    (/\ testfunc = "ready_and_version_is_updated"
     /\ polls >= 1
     /\ wait_error = ""
     /\ describe_env(fetched, {}).raised = "")
    => LET e == describe_env(fetched, {}).env IN
       wait_state = "Satisfied"
           <=> /\ e.Status = "Ready"
               /\ (params.version_label \in {PyNone, ""}
                   \/ e.VersionLabel = params.version_label)

-----------------------------------------------------------------------------
(* Runs of main() of the four modules, outside check mode                  *)

\* Most matches a lookup by name returns.
MaxMatches == 3

Kinds == {"app", "version", "template", "env"}
StatesOf(k) ==
    CASE k = "app" -> {"present", "absent", "list"}
      [] k = "version" -> {"present", "absent", "list"}
      [] k = "template" -> {"present", "absent", "list", "details"}
      [] k = "env" -> {"present", "absent", "list", "details"}

Described == {[Description |-> d] : d \in {PyNone, "d1"}}
Templates ==
    {[SolutionStackName |-> "s1", Description |-> d, OptionSettings |-> <<>>] :
        d \in {PyNone, "d1"}}
NamedEnvs ==
    {EnvRecord(s, "Green", "v1") : s \in {"Ready", "Terminating", "Terminated"}}

\* what the client returns for the name the run looks up
MatchesOf(k) ==
    CASE k \in {"app", "version"} -> SeqsUpTo(Described, MaxMatches)
      [] k = "template" -> SeqsUpTo(Templates, MaxMatches)
      [] k = "env" -> SeqsUpTo(NamedEnvs, MaxMatches)

\* module.params of the run: a description for the application, version and
\* template modules, a version_label for the environment module
ParamsOf(k) ==
    IF k = "env"
    THEN {Params(v, PyNone, <<>>, PyNone, PyNone) : v \in {PyNone, "v1"}}
    ELSE {Params(PyNone, PyNone, <<>>, d, PyNone) : d \in {PyNone, "d1", "d2"}}

ExitJson(c) == [kind |-> "exit_json", changed |-> c, msg |-> ""]
FailJson(m) == [kind |-> "fail_json", changed |-> FALSE, msg |-> m]
\* an exception no handler of main() catches
Unhandled(e) == [kind |-> "exception", changed |-> FALSE, msg |-> e]

RunInit ==
    /\ kind \in Kinds
    /\ state \in StatesOf(kind)
    /\ remote \in MatchesOf(kind)
    /\ resource = Unset
    /\ run_pc = "start"
    /\ writes = <<>>
    /\ result = Unset
    /\ wait_timeout \in {0, 15}
    /\ testfunc = "none"
    /\ clock = 0
    /\ timeout_time = 0
    /\ polls = 0
    /\ fetched = <<>>
    /\ wait_state = "Idle"
    /\ wait_error = ""
    /\ env = Unset
    /\ env_settings = Unset
    /\ params \in ParamsOf(kind)
    /\ updates = <<>>
    /\ diff_pc = "idle"
    /\ OptIdle /\ CleanupIdle

waitVars == <<wait_timeout, testfunc, clock, timeout_time, polls, fetched, wait_state,
              wait_error>>

Finish(r) == result' = r /\ run_pc' = "done"

\* ---- elasticbeanstalk_app.py

\* lines 175-180
AppLookup ==
    /\ kind = "app" /\ run_pc = "start" /\ state # "list"
    /\ LET d == describe_app(remote) IN
       IF d.raised = "MoreThanOneApplicationFound"
       THEN Finish(FailJson(d.raised)) /\ UNCHANGED resource
       ELSE resource' = d.app /\ run_pc' = "looked_up" /\ UNCHANGED result
    /\ UNCHANGED <<kind, state, remote, writes, waitVars, optVars, diffVars, cleanupVars>>

\* lines 186-197; describe_app after the write raises when it does not find
\* exactly one application
AppPresent ==
    /\ kind = "app" /\ run_pc = "looked_up" /\ state = "present"
    /\ IF resource = None \/ resource.Description # params.description
       THEN /\ writes' = Append(writes, IF resource = None THEN "create_application"
                                        ELSE "update_application")
            /\ \E again \in SeqsUpTo(Described, 2) :
                  /\ fetched' = again
                  /\ Finish(IF describe_app(again).raised # ""
                            THEN Unhandled(describe_app(again).raised)
                            ELSE ExitJson(TRUE))
       ELSE Finish(ExitJson(FALSE)) /\ UNCHANGED <<writes, fetched>>
    /\ UNCHANGED <<kind, state, remote, resource, wait_timeout, testfunc, clock, timeout_time,
                   polls, wait_state, wait_error, optVars, diffVars, cleanupVars>>

\* lines 198-203
AppAbsent ==
    /\ kind = "app" /\ run_pc = "looked_up" /\ state = "absent"
    /\ IF resource = None
       THEN Finish(ExitJson(FALSE)) /\ UNCHANGED writes
       ELSE writes' = Append(writes, "delete_application") /\ Finish(ExitJson(TRUE))
    /\ UNCHANGED <<kind, state, remote, resource, waitVars, optVars, diffVars, cleanupVars>>

\* lines 204-206
AppList ==
    /\ kind = "app" /\ run_pc = "start" /\ state = "list"
    /\ Finish(ExitJson(FALSE))
    /\ UNCHANGED <<kind, state, remote, resource, writes, waitVars, optVars, diffVars,
                   cleanupVars>>

\* ---- elasticbeanstalk_version.py

\* lines 286-300
VersionPresent ==
    /\ kind = "version" /\ run_pc = "start" /\ state = "present"
    /\ resource' = describe_version(remote)
    /\ IF resource' = None \/ resource'.Description # params.description
       THEN /\ writes' = Append(writes, IF resource' = None THEN "create_application_version"
                                        ELSE "update_application_version")
            /\ \E again \in SeqsUpTo(Described, 2) : fetched' = again
            /\ Finish(ExitJson(TRUE))
       ELSE Finish(ExitJson(FALSE)) /\ UNCHANGED <<writes, fetched>>
    /\ UNCHANGED <<kind, state, remote, wait_timeout, testfunc, clock, timeout_time,
                   polls, wait_state, wait_error, optVars, diffVars, cleanupVars>>

\* lines 302-309
VersionAbsent ==
    /\ kind = "version" /\ run_pc = "start" /\ state = "absent"
    /\ resource' = describe_version(remote)
    /\ IF resource' = None
       THEN Finish(ExitJson(FALSE)) /\ UNCHANGED writes
       ELSE writes' = Append(writes, "delete_application_version") /\ Finish(ExitJson(TRUE))
    /\ UNCHANGED <<kind, state, remote, waitVars, optVars, diffVars, cleanupVars>>

\* lines 325-328
VersionList ==
    /\ kind = "version" /\ run_pc = "start" /\ state = "list"
    /\ Finish(ExitJson(FALSE))
    /\ UNCHANGED <<kind, state, remote, resource, writes, waitVars, optVars, diffVars,
                   cleanupVars>>

\* ---- elasticbeanstalk_configuration_template.py

\* lines 184-196
TemplateRead ==
    /\ kind = "template" /\ run_pc = "start" /\ state \in {"list", "details"}
    /\ resource' = describe_configuration_template(remote)
    /\ Finish(ExitJson(FALSE))
    /\ UNCHANGED <<kind, state, remote, writes, waitVars, optVars, diffVars, cleanupVars>>

\* lines 178, 202-216: create_configuration_template is called whatever the
\* lookup found; the platform rejects it when the template exists.
TemplateCreate ==
    /\ kind = "template" /\ run_pc = "start" /\ state = "present"
    /\ resource' = describe_configuration_template(remote)
    /\ writes' = Append(writes, "create_configuration_template")
    /\ \E outcome \in {"answered", "ClientError"} :
          IF outcome = "ClientError" THEN Finish(FailJson("ClientError"))
          ELSE IF Len(remote) = 0 THEN Finish(ExitJson(TRUE))
          ELSE run_pc' = "update" /\ UNCHANGED result
    /\ UNCHANGED <<kind, state, remote, waitVars, optVars, diffVars, cleanupVars>>

\* lines 218-232
TemplateUpdate ==
    /\ kind = "template" /\ run_pc = "update"
    /\ \E again \in SeqsUpTo(Templates, 2) :
          /\ fetched' = again
          /\ resource' = describe_configuration_template(again)
          /\ IF resource' = None
             THEN Finish(Unhandled("TypeError")) /\ UNCHANGED <<writes, updates>>
             ELSE LET r == cfgtpl_update_required(resource', params) IN
                  IF r.raised # ""
                  THEN Finish(Unhandled(r.raised)) /\ UNCHANGED <<writes, updates>>
                  ELSE /\ updates' = r.updates
                       /\ IF Len(r.updates) > 0
                          THEN /\ writes' = Append(writes, "update_configuration_template")
                               /\ \E outcome \in {"answered", "ClientError"} :
                                     Finish(IF outcome = "ClientError"
                                            THEN FailJson("ClientError")
                                            ELSE ExitJson(TRUE))
                          ELSE Finish(ExitJson(FALSE)) /\ UNCHANGED writes
    /\ UNCHANGED <<kind, state, remote, wait_timeout, testfunc, clock, timeout_time, polls,
                   wait_state, wait_error, optVars, env, env_settings, params, diff_pc,
                   cleanupVars>>

\* lines 234-239: the argument env_name is no name of the module, so the
\* call raises NameError before delete_configuration_template is invoked.
TemplateAbsent ==
    /\ kind = "template" /\ run_pc = "start" /\ state = "absent"
    /\ resource' = describe_configuration_template(remote)
    /\ Finish(Unhandled("NameError"))
    /\ UNCHANGED <<kind, state, remote, writes, waitVars, optVars, diffVars, cleanupVars>>

\* ---- elasticbeanstalk_env.py

IgnoredStatuses == {"Terminated", "Terminating"}

\* lines 382-397
EnvRead ==
    /\ kind = "env" /\ run_pc = "start" /\ state \in {"list", "details"}
    /\ \E outcome \in {"answered", "ClientError"} :
          Finish(IF outcome = "ClientError" THEN FailJson("ClientError") ELSE ExitJson(FALSE))
    /\ UNCHANGED <<kind, state, remote, resource, writes, waitVars, optVars, diffVars,
                   cleanupVars>>

\* lines 399-415: describe_env, then describe_env_config_settings, which
\* returns one element of the ConfigurationSettings list, or is taken as None
EnvLookup ==
    /\ kind = "env" /\ run_pc = "start" /\ state \in {"present", "absent"}
    /\ LET d == describe_env(remote, IgnoredStatuses) IN
       IF d.raised = "MoreThanOneEnvironmentFound"
       THEN Finish(FailJson(d.raised)) /\ UNCHANGED <<env, env_settings>>
       ELSE /\ env' = IF d.raised = "EnvironmentNotFound" THEN None ELSE d.env
            /\ \E s \in {"found", "EnvironmentConfigurationNotFound", "ClientError",
                         "MoreThanOneEnvironmentConfigurationFound"} :
                  IF s \in {"ClientError", "MoreThanOneEnvironmentConfigurationFound"}
                  THEN Finish(FailJson(s)) /\ UNCHANGED env_settings
                  ELSE /\ env_settings' = IF s = "found" THEN SettingsDescription(<<>>)
                                          ELSE SettingsNone
                       /\ run_pc' = "looked_up"
                       /\ UNCHANGED result
    /\ UNCHANGED <<kind, state, remote, resource, writes, waitVars, optVars, params, updates,
                   diff_pc, cleanupVars>>

\* lines 421-464
EnvPresent ==
    /\ kind = "env" /\ run_pc = "looked_up" /\ state = "present"
    /\ IF env = None
       THEN /\ writes' = Append(writes, "create_environment")
            /\ \E outcome \in {"answered", "ClientError"} :
                  IF outcome = "ClientError"
                  THEN /\ Finish(FailJson("ClientError"))
                       /\ UNCHANGED <<testfunc, timeout_time, polls, wait_state, wait_error>>
                  ELSE /\ StartWaitFor("status_is_ready")
                       /\ run_pc' = "waiting"
                       /\ UNCHANGED result
            /\ UNCHANGED <<env, updates>>
       ELSE LET r == update_required(env, env_settings, params) IN
            /\ env' = r.env
            /\ updates' = r.updates
            /\ IF r.raised # ""
               THEN /\ Finish(Unhandled(r.raised))
                    /\ UNCHANGED <<writes, testfunc, timeout_time, polls, wait_state,
                                   wait_error>>
               ELSE IF Len(r.updates) > 0
               THEN /\ writes' = Append(writes, "update_environment")
                    /\ \E outcome \in {"answered", "ClientError"} :
                          IF outcome = "ClientError"
                          THEN /\ Finish(FailJson("ClientError"))
                               /\ UNCHANGED <<testfunc, timeout_time, polls, wait_state,
                                              wait_error>>
                          ELSE /\ StartWaitFor("ready_and_version_is_updated")
                               /\ run_pc' = "waiting"
                               /\ UNCHANGED result
               ELSE /\ Finish(ExitJson(FALSE))
                    /\ UNCHANGED <<writes, testfunc, timeout_time, polls, wait_state,
                                   wait_error>>
    /\ UNCHANGED <<kind, state, remote, resource, wait_timeout, clock, fetched, optVars,
                   env_settings, params, diff_pc, cleanupVars>>

\* lines 466-475
EnvAbsent ==
    /\ kind = "env" /\ run_pc = "looked_up" /\ state = "absent"
    /\ IF env = None
       THEN /\ Finish(ExitJson(FALSE))
            /\ UNCHANGED <<writes, testfunc, timeout_time, polls, wait_state, wait_error>>
       ELSE /\ writes' = Append(writes, "terminate_environment")
            /\ \E outcome \in {"answered", "ClientError"} :
                  IF outcome = "ClientError"
                  THEN /\ Finish(FailJson("ClientError"))
                       /\ UNCHANGED <<testfunc, timeout_time, polls, wait_state, wait_error>>
                  ELSE /\ StartWaitFor("terminated")
                       /\ run_pc' = "waiting"
                       /\ UNCHANGED result
    /\ UNCHANGED <<kind, state, remote, resource, wait_timeout, clock, fetched, optVars,
                   diffVars, cleanupVars>>

\* wait_for leaves main(): its return value gives changed=True; a ClientError
\* goes to fail_json; any other exception is caught by no handler.
WaitForEnds ==
    /\ kind = "env" /\ run_pc = "waiting"
    /\ wait_state \in {"Satisfied", "TimedOut", "Failed"}
    /\ Finish(IF wait_state = "Satisfied" THEN ExitJson(TRUE)
              ELSE IF wait_error \in ClientErrors THEN FailJson(wait_error)
              ELSE Unhandled(wait_error))
    /\ UNCHANGED <<kind, state, remote, resource, writes, waitVars, optVars, diffVars,
                   cleanupVars>>

RunNext ==
    \/ AppLookup \/ AppPresent \/ AppAbsent \/ AppList
    \/ VersionPresent \/ VersionAbsent \/ VersionList
    \/ TemplateRead \/ TemplateCreate \/ TemplateUpdate \/ TemplateAbsent
    \/ EnvRead \/ EnvLookup \/ EnvPresent \/ EnvAbsent \/ Tick \/ WaitForEnds

RunSpec == RunInit /\ [][RunNext]_vars

Reported == run_pc = "done" /\ result.kind = "exit_json"

\* The environment of the latest poll satisfies the predicate the last write
\* of the run is waited for with.
TargetSeen ==
    /\ Len(fetched) = 1
    /\ LET w == writes[Len(writes)] IN
       CASE w = "create_environment" -> fetched[1].Status = "Ready"
         [] w = "terminate_environment" -> fetched[1].Status = "Terminated"
         [] w = "update_environment" ->
                /\ fetched[1].Status = "Ready"
                /\ params.version_label \in {PyNone, "", fetched[1].VersionLabel}
         [] OTHER -> FALSE

\* C6 as claimed: for every resource kind, a run that issued a write reports
\* changed=true only after a waiter poll has observed the target predicate.
C6_ChangedOnlyAfterConfirmation ==
    (Reported /\ result.changed /\ writes # <<>>)
        => (polls >= 1 /\ wait_state = "Satisfied" /\ TargetSeen)

\* C6 as amended: an environment run reports changed=true only after a poll
\* of wait_for has observed the target predicate on a freshly fetched
\* environment; application, version and configuration-template runs report
\* changed=true after their write with no waiter poll at all; the read paths
\* report without waiting and without writing.
C6_EnvChangedOnlyAfterConfirmation ==
    /\ (Reported /\ result.changed /\ kind = "env")
           => (writes # <<>> /\ polls >= 1 /\ wait_state = "Satisfied" /\ TargetSeen)
    /\ (Reported /\ result.changed /\ kind # "env")
           => (writes # <<>> /\ polls = 0 /\ wait_state = "Idle")
    /\ (run_pc = "done" /\ state \in {"list", "details"})
           => (writes = <<>> /\ polls = 0 /\ ~result.changed)

C6_Witness ==
    /\ Reported /\ result.changed
    /\ kind = "env"
    /\ writes = <<"create_environment">>
    /\ polls = 2
    /\ fetched[1].Status = "Ready"

\* C8: a run with state=absent against a resource that does not exist
\* invokes no write operation and reports changed=false (runs ended by a
\* failing client call aside).
C8_AbsentOfAbsentIsNoop ==
    (run_pc = "done" /\ state = "absent" /\ Len(remote) = 0 /\ result.kind # "fail_json")
        => (writes = <<>> /\ result = ExitJson(FALSE))

\* matches a lookup may not settle by itself: for an environment, those
\* whose Status is not ignored
RECURSIVE CountLive(_)
CountLive(envs) ==
    IF envs = <<>> THEN 0
    ELSE (IF Head(envs).Status \in IgnoredStatuses THEN 0 ELSE 1) + CountLive(Tail(envs))

AmbiguousMatch == IF kind = "env" THEN CountLive(remote) > 1 ELSE Len(remote) > 1

\* C9: when the lookup by name returns more than one match, the run fails
\* with an error and invokes no write operation.
C9_AmbiguousMatchIsFatal ==
    (run_pc = "done" /\ state \in {"present", "absent"} /\ AmbiguousMatch)
        => (result.kind \in {"fail_json", "exception"} /\ writes = <<>>)

\* an environment run that has made its lookup by name
EnvLookedUp == kind = "env" /\ state \in {"present", "absent"} /\ run_pc # "start"

\* C25: when the response holds exactly one environment whose Status is not
\* ignored, describe_env returns that environment, however many ignored ones
\* stand next to it and in whatever order; MoreThanOneEnvironmentFound is
\* raised only when two or more are not ignored.
C25_OneLiveEnvironmentIsFound ==
    EnvLookedUp =>
        /\ result = FailJson("MoreThanOneEnvironmentFound") => CountLive(remote) >= 2
        /\ (CountLive(remote) = 1 /\ run_pc = "looked_up") =>
               \E i \in DOMAIN remote :
                   remote[i].Status \notin IgnoredStatuses /\ env = remote[i]

\* C26: describe_env called with the ignored statuses never returns an
\* environment whose Status is one of them; when every match is ignored the
\* environment is absent: state=present creates, state=absent is a noop.
C26_IgnoredEnvironmentIsAbsent ==
    /\ (EnvLookedUp /\ run_pc = "looked_up") =>
           (env = None \/ env.Status \notin IgnoredStatuses)
    /\ (EnvLookedUp /\ run_pc = "done" /\ CountLive(remote) = 0
            /\ result.kind # "fail_json") =>
           IF state = "present" THEN writes = <<"create_environment">>
           ELSE writes = <<>> /\ result = ExitJson(FALSE)

\* C30: state=present against an existing environment whose settings were
\* fetched ends with changed=false or with an update, never with an error
\* raised while reading the fetched settings.
C30_PresentReachesDecision ==
    (/\ kind = "env" /\ state = "present" /\ run_pc = "done"
     /\ env # None /\ env # Unset
     /\ env_settings = SettingsDescription(<<>>))
    => result.kind # "exception"

\* C27: wait_for fetches at least once before it ends; the predicate is
\* evaluated on the fetch of a pass before the deadline is looked at, so a
\* fetch that satisfies it ends the wait with that environment whatever the
\* clock says (wait_timeout = 0 included), and the timeout is raised only
\* right after a fetch on which the predicate was false.
C27_PredicateBeforeDeadline ==
    /\ wait_state \in {"Satisfied", "TimedOut", "Failed"} => polls >= 1
    /\ wait_state = "TimedOut" =>
           /\ Len(fetched) = 1
           /\ ~TestFunc(testfunc, params.version_label, fetched[1])
           /\ clock > timeout_time
    /\ (/\ polls >= 1 /\ wait_error = "" /\ Len(fetched) = 1
        /\ TestFunc(testfunc, params.version_label, fetched[1]))
       => wait_state = "Satisfied"

C27_Witness ==
    /\ wait_timeout = 0 /\ polls = 1 /\ clock > timeout_time
    /\ wait_state = "Satisfied"
    /\ Len(fetched) = 1 /\ TestFunc(testfunc, params.version_label, fetched[1])

\* C29: a poll of wait_for that finds no environment ends the wait at once
\* with EnvironmentNotFound: the wait neither goes on polling nor takes the
\* `terminated` predicate as satisfied, and the run ends with that error,
\* not with changed=true.
C29_VanishedEnvironmentEndsWait ==
    /\ (/\ kind = "env" /\ polls >= 1 /\ fetched = <<>>
        /\ wait_error \notin ClientErrors)
       => wait_state = "Failed" /\ wait_error = "EnvironmentNotFound"
    /\ (kind = "env" /\ run_pc = "done" /\ wait_error = "EnvironmentNotFound")
       => result = Unhandled("EnvironmentNotFound")

C29_Witness ==
    /\ kind = "env" /\ state = "absent" /\ run_pc = "done"
    /\ writes = <<"terminate_environment">>
    /\ polls = 2 /\ fetched = <<>>
    /\ result = Unhandled("EnvironmentNotFound")

====
